---- MODULE Spec2Model ----
(***************************************************************************)
(* Model of the hono CLI: the module loader (src/utils/build.ts,          *)
(* buildAndImportApp) and the optimize command's router choice and        *)
(* request-body removal decision.                                         *)
(***************************************************************************)
EXTENDS Integers, Sequences, FiniteSets, TLC

\* Number of builds (the initial build plus rebuilds) esbuild runs in one behaviour.
MaxBuilds == 3

\* The value slot of a promise that has not been resolved (build.ts:23).
Pending == 0

\* What a finished build hands to the build-end callback, by what the callback
\* can observe of it (build.ts:49-64).
BuildResults == {"ok", "compileError", "importThrows", "noDefault", "notApp"}

VARIABLES
  \* ---- module loader (buildAndImportApp) ----
  watch,          \* options.watch
  genPc,          \* position of the async generator body
  promiseState,   \* every promise preparePromise created: Pending or the handle it resolved to
  appPromise,     \* index of the promise the generator awaits
  resolveApp,     \* index of the promise the resolveApp closure settles
  context,        \* esbuild build context: "none", "active", "disposed"
  buildPc,        \* esbuild's build cycle: "idle", "running", "onEnd"
  buildNo,        \* number of builds started; a handle is named by its build's number
  onEndResult,    \* result the running build-end callback was called with
  consumer,       \* "idle", "waiting" (a next() is unsettled), "stopped" (called return())
  delivered,      \* handles the consumer received, in order
  sawDone,        \* a next() settled with done: true
  sawReject,      \* a next() was rejected
  errorLog,       \* number of console.error('Error building app', ...) calls
  lastImport,     \* build number of the newest bundle executed by import(dataUrl)
  cancelled,      \* the consumer called return()
  succeeded,      \* builds whose callback reached resolveApp(app)
  failed,         \* builds whose callback ended in the catch block
  accepted,       \* builds whose resolveApp call settled a pending promise
  builtAtDelivery,\* per delivery: the newest successful build at that moment
  buildsAtCancel, \* value of buildNo when return() was called
  \* ---- request command (the loader's consumer) ----
  doSaveFile,     \* options.output || options.remoteName
  requested,      \* handles app.request() was called on, in order
  outputs,        \* per printed or saved result: the handle and where it went
  requestExit,    \* why the action left its loop early, or NoRequestExit
  \* ---- optimize command ----
  optPc,                  \* position in the command's action
  command,                \* "optimize" or "request"
  entryArg,               \* the entry argument; "" when it is not given
  fsFiles,                \* files that exist under the working directory
  target,                 \* options.target
  routes,                 \* app.routes of the probed application, in registration order
  requestBodyApiRemoval,  \* options.requestBodyApiRemoval
  contextResponseApiRemoval, \* options.contextResponseApiRemoval
  honoApiRemoval,         \* options.honoApiRemoval
  frameworkHasPrepared,   \* the installed hono exports PreparedRegExpRouter
  sourceFiles,            \* modules the probe build loads, in load order
  probeRefs,              \* <<object, method>>: lifecycle methods read while the bundle runs
  instrumented,           \* the exported application is an instance of the stand-in class
  probeResult,            \* how the probe build ends
  parseFails,             \* packaged framework files that @babel/parser rejects
  serialized,             \* result of serializeInitParams(buildInitParams(...))
  exitCode,               \* exit code of the capability-probe subprocess
  routerName,             \* the chosen router
  routerParams,           \* the serialized params handed to PreparedRegExpRouter
  loadIdx,                \* number of modules the probe build's onLoad hook has seen
  unusedContextResponseMethods, \* the Set of that name
  unusedHonoMethods,      \* keys of app.unusedMethods as read after the probe
  removeRequestBodyApi,   \* request-body removal eligibility
  removeHonoApi,          \* lifecycle removal decision
  removed,                \* categories pushed to the summary's `removed` list
  entry,                  \* the resolved entry
  errorMessage,           \* what the action threw, or NoError
  loaderInvoked,          \* buildAndImportApp was called
  probeBuildStarted,      \* the probe build was started
  subprocessStarted,      \* the capability-probe subprocess was started
  finalBuildStarted,      \* esbuild.build of the final bundle was called
  output,                 \* the written artifact: members removed per class, or NoOutput
  \* ---- one import in the final build ----
  rImport,                \* the import: path as written, importer directory ("" when none)
  rPc,                    \* "idle", "resolve", "load", "done", "overflow"
  rDepth,                 \* build.resolve calls of hooks that have not returned
  rMaxDepth,              \* largest rDepth seen
  rHookCalls,             \* invocations of the plugin's resolve hooks
  rPath,                  \* the path the import resolved to
  rRedirected,            \* a hook returned a synthetic path
  rLoadMatches,           \* the load hooks whose filter matches rPath
  rContent,               \* the file whose text the module is built from
  \* ---- one call of removeApis ----
  rmContents,             \* contents, as the statements @babel/parser reads from it
  rmClassName,            \* className
  rmMethods,              \* methods
  rmPc,                   \* "idle", "call", "returned", "threw"
  rmResult                \* the returned text, as the statements it reads as

requestVars == <<doSaveFile, requested, outputs, requestExit>>

loaderVars == <<watch, genPc, promiseState, appPromise, resolveApp, context, buildPc,
                buildNo, onEndResult, consumer, delivered, sawDone, sawReject, errorLog,
                lastImport, cancelled, succeeded, failed, accepted, builtAtDelivery,
                buildsAtCancel, requestVars>>

\* The command line, the file system and the probed application: never
\* assigned by the action.
optIn == <<command, entryArg, fsFiles, target, routes, requestBodyApiRemoval,
           contextResponseApiRemoval, honoApiRemoval, frameworkHasPrepared, sourceFiles,
           probeRefs, instrumented, probeResult, parseFails>>

optRouter == <<serialized, exitCode, routerName, routerParams>>

optUsage == <<loadIdx, unusedContextResponseMethods, unusedHonoMethods>>

optDecision == <<removeRequestBodyApi, removeHonoApi, removed>>

optEffects == <<entry, errorMessage, loaderInvoked, probeBuildStarted, subprocessStarted,
                finalBuildStarted, output>>

removeVars == <<rmContents, rmClassName, rmMethods, rmPc, rmResult>>

resolveVars == <<rImport, rPc, rDepth, rMaxDepth, rHookCalls, rPath, rRedirected,
                 rLoadMatches, rContent, removeVars>>

optVars == <<optPc, optIn, optRouter, optUsage, optDecision, optEffects, resolveVars>>

vars == <<loaderVars, optVars>>

Range(s) == {s[i] : i \in DOMAIN s}

MaxOf(S) == IF S = {} THEN 0 ELSE CHOOSE m \in S : \A x \in S : x <= m

\* ------------------------------------------------------------------------
\* The module a data-URL import of the bundle evaluates to (build.ts:49-55).
\* threw: evaluating the bundle raised; hasDefault: module.default is truthy;
\* hasRequest: typeof module.default.request === 'function'.
importModule(r) ==
  [ threw      |-> r = "importThrows",
    ranCode    |-> r # "compileError",
    hasDefault |-> r \in {"ok", "notApp"},
    hasRequest |-> r = "ok" ]

\* A mutant of validApp: the request member is not looked at.
validApp_NoRequestCheck(m) == ~m.threw /\ m.hasDefault

\* The two guards of the build-end callback (build.ts:58-64).
validApp(m) == ~m.threw /\ m.hasDefault /\ m.hasRequest

\* preparePromise(): a fresh pending promise, awaited next and settled by
\* the resolveApp closure (build.ts:22-26).
preparePromise ==
  /\ promiseState' = Append(promiseState, Pending)
  /\ appPromise' = Len(promiseState) + 1
  /\ resolveApp' = Len(promiseState) + 1

\* do { ... } while (options.watch)  (build.ts:89)
LoopAgain_Always == TRUE

LoopAgain == watch

LoaderInit ==
  /\ watch \in BOOLEAN
  /\ genPc = "start"
  /\ promiseState = <<>>
  /\ appPromise = 0
  /\ resolveApp = 0
  /\ context = "none"
  /\ buildPc = "idle"
  /\ buildNo = 0
  /\ onEndResult = "ok"
  /\ consumer = "idle"
  /\ delivered = <<>>
  /\ sawDone = FALSE
  /\ sawReject = FALSE
  /\ errorLog = 0
  /\ lastImport = 0
  /\ cancelled = FALSE
  /\ succeeded = {}
  /\ failed = {}
  /\ accepted = {}
  /\ builtAtDelivery = <<>>
  /\ buildsAtCancel = 0

NoRequestExit == "none"

\* The request command before its action runs (request/index.ts:41-45).
RequestIdle ==
  /\ doSaveFile = FALSE
  /\ requested = <<>>
  /\ outputs = <<>>
  /\ requestExit = NoRequestExit

\* First next(): the generator body runs to its first await (build.ts:19-29).
NextStart ==
  /\ consumer = "idle"
  /\ genPc = "start"
  /\ preparePromise
  /\ genPc' = "context"
  /\ consumer' = "waiting"
  /\ UNCHANGED <<watch, context, buildPc, buildNo, onEndResult, delivered, sawDone,
                 sawReject, errorLog, lastImport, cancelled, succeeded, failed, accepted,
                 builtAtDelivery, buildsAtCancel,
                 requestVars, optVars>>

\* esbuild.context() resolved; context.watch() is called and esbuild starts the
\* first build (build.ts:29-81).
ContextReady ==
  /\ genPc = "context"
  /\ context' = "active"
  /\ genPc' = "watching"
  /\ buildPc' = "running"
  /\ buildNo' = buildNo + 1
  /\ UNCHANGED <<watch, promiseState, appPromise, resolveApp, onEndResult, consumer,
                 delivered, sawDone, sawReject, errorLog, lastImport, cancelled, succeeded,
                 failed, accepted, builtAtDelivery, buildsAtCancel,
                 requestVars, optVars>>

\* esbuild.context() rejected: the generator throws and the pending next() is
\* rejected (build.ts:29; build.test.ts:213-221).
ContextFails ==
  /\ genPc = "context"
  /\ genPc' = "threw"
  /\ consumer' = "idle"
  /\ sawReject' = TRUE
  /\ UNCHANGED <<watch, promiseState, appPromise, resolveApp, context, buildPc, buildNo,
                 onEndResult, delivered, sawDone, errorLog, lastImport, cancelled, succeeded,
                 failed, accepted, builtAtDelivery, buildsAtCancel,
                 requestVars, optVars>>

\* A mutant of WatchReady: dispose() is called whatever options.watch is.
WatchReady_AlwaysDispose ==
  /\ genPc = "watching"
  /\ genPc' = "disposing"
  /\ UNCHANGED <<watch, promiseState, appPromise, resolveApp, context, buildPc, buildNo,
                 onEndResult, consumer, delivered, sawDone, sawReject, errorLog, lastImport,
                 cancelled, succeeded, failed, accepted, builtAtDelivery, buildsAtCancel,
                 requestVars, optVars>>

\* await context.watch() returned; one-shot mode goes on to call dispose()
\* (build.ts:81-84).
WatchReady ==
  /\ genPc = "watching"
  /\ genPc' = IF watch THEN "awaitApp" ELSE "disposing"
  /\ UNCHANGED <<watch, promiseState, appPromise, resolveApp, context, buildPc, buildNo,
                 onEndResult, consumer, delivered, sawDone, sawReject, errorLog, lastImport,
                 cancelled, succeeded, failed, accepted, builtAtDelivery, buildsAtCancel,
                 requestVars, optVars>>

\* A mutant of DisposeDone: the session is released without waiting for the
\* build in progress.
DisposeDone_NoWait ==
  /\ genPc = "disposing"
  /\ context' = "disposed"
  /\ genPc' = "awaitApp"
  /\ UNCHANGED <<watch, promiseState, appPromise, resolveApp, buildPc, buildNo,
                 onEndResult, consumer, delivered, sawDone, sawReject, errorLog, lastImport,
                 cancelled, succeeded, failed, accepted, builtAtDelivery, buildsAtCancel,
                 requestVars, optVars>>

\* await context.dispose() returned: esbuild answers once the active build and
\* its callbacks have finished (build.ts:82-84).
DisposeDone ==
  /\ genPc = "disposing"
  /\ buildPc = "idle"
  /\ context' = "disposed"
  /\ genPc' = "awaitApp"
  /\ UNCHANGED <<watch, promiseState, appPromise, resolveApp, buildPc, buildNo,
                 onEndResult, consumer, delivered, sawDone, sawReject, errorLog, lastImport,
                 cancelled, succeeded, failed, accepted, builtAtDelivery, buildsAtCancel,
                 requestVars, optVars>>

\* A watched file changed: the active context starts a rebuild (build.ts:81).
FileChange ==
  /\ context = "active"
  /\ genPc # "disposing"
  /\ buildPc = "idle"
  /\ buildNo < MaxBuilds
  /\ buildPc' = "running"
  /\ buildNo' = buildNo + 1
  /\ UNCHANGED <<watch, genPc, promiseState, appPromise, resolveApp, context,
                 onEndResult, consumer, delivered, sawDone, sawReject, errorLog, lastImport,
                 cancelled, succeeded, failed, accepted, builtAtDelivery, buildsAtCancel,
                 requestVars, optVars>>

\* The generator awaits a promise that is resolved: its continuation is queued
\* as a microtask and runs before any other callback (build.ts:87).
DeliverReady == genPc = "awaitApp" /\ promiseState[appPromise] # Pending

\* The build ended: esbuild calls the onEnd callback, which runs up to
\* await import(dataUrl) (build.ts:46-54).
BuildEnd(r) ==
  /\ buildPc = "running"
  /\ ~DeliverReady
  /\ buildPc' = "onEnd"
  /\ onEndResult' = r
  /\ UNCHANGED <<watch, genPc, promiseState, appPromise, resolveApp, context, buildNo,
                 consumer, delivered, sawDone, sawReject, errorLog, lastImport, cancelled,
                 succeeded, failed, accepted, builtAtDelivery, buildsAtCancel,
                 requestVars, optVars>>

\* The import resolved to a valid app: resolveApp(app) (build.ts:54-70).
\* Resolving a promise that is already resolved changes nothing.
OnEndResolve ==
  /\ buildPc = "onEnd"
  /\ ~DeliverReady
  /\ validApp(importModule(onEndResult))
  /\ promiseState' = [promiseState EXCEPT
                        ![resolveApp] = IF @ = Pending THEN buildNo ELSE @]
  /\ accepted' = IF promiseState[resolveApp] = Pending
                   THEN accepted \cup {buildNo} ELSE accepted
  /\ succeeded' = succeeded \cup {buildNo}
  /\ lastImport' = buildNo
  /\ buildPc' = "idle"
  /\ UNCHANGED <<watch, genPc, appPromise, resolveApp, context, buildNo, onEndResult,
                 consumer, delivered, sawDone, sawReject, errorLog, cancelled, failed,
                 builtAtDelivery, buildsAtCancel,
                 requestVars, optVars>>

\* A mutant of OnEndError: the failure ends the sequence with a rejection.
OnEndError_Rejects ==
  /\ buildPc = "onEnd"
  /\ ~DeliverReady
  /\ ~validApp(importModule(onEndResult))
  /\ errorLog' = errorLog + 1
  /\ failed' = failed \cup {buildNo}
  /\ lastImport' = IF importModule(onEndResult).ranCode THEN buildNo ELSE lastImport
  /\ buildPc' = "idle"
  /\ genPc' = IF consumer = "waiting" THEN "threw" ELSE genPc
  /\ sawReject' = (sawReject \/ consumer = "waiting")
  /\ consumer' = IF consumer = "waiting" THEN "idle" ELSE consumer
  /\ UNCHANGED <<watch, promiseState, appPromise, resolveApp, context, buildNo,
                 onEndResult, delivered, sawDone, cancelled, succeeded, accepted,
                 builtAtDelivery, buildsAtCancel,
                 requestVars, optVars>>

\* The import threw, or the default export is missing or has no callable
\* request: the error is caught and logged, nothing else (build.ts:58-73).
OnEndError ==
  /\ buildPc = "onEnd"
  /\ ~DeliverReady
  /\ ~validApp(importModule(onEndResult))
  /\ errorLog' = errorLog + 1
  /\ failed' = failed \cup {buildNo}
  /\ lastImport' = IF importModule(onEndResult).ranCode THEN buildNo ELSE lastImport
  /\ buildPc' = "idle"
  /\ UNCHANGED <<watch, genPc, promiseState, appPromise, resolveApp, context, buildNo,
                 onEndResult, consumer, delivered, sawDone, sawReject, cancelled,
                 succeeded, accepted, builtAtDelivery, buildsAtCancel,
                 requestVars, optVars>>

\* yield await appPromise: the awaited promise is resolved, the handle goes to
\* the pending next() (build.ts:87).
Deliver ==
  /\ DeliverReady
  /\ delivered' = Append(delivered, promiseState[appPromise])
  /\ builtAtDelivery' = Append(builtAtDelivery, MaxOf(succeeded))
  /\ genPc' = "yielded"
  /\ consumer' = "idle"
  /\ UNCHANGED <<watch, promiseState, appPromise, resolveApp, context, buildPc, buildNo,
                 onEndResult, sawDone, sawReject, errorLog, lastImport, cancelled, succeeded,
                 failed, accepted, buildsAtCancel,
                 requestVars, optVars>>

\* A mutant of NextResume: the generator resumes without preparePromise().
NextResume_NoRearm ==
  /\ consumer = "idle"
  /\ genPc = "yielded"
  /\ UNCHANGED <<promiseState, appPromise, resolveApp>>
  /\ IF LoopAgain
       THEN genPc' = "awaitApp" /\ consumer' = "waiting" /\ UNCHANGED sawDone
       ELSE genPc' = "done" /\ consumer' = "idle" /\ sawDone' = TRUE
  /\ UNCHANGED <<watch, context, buildPc, buildNo, onEndResult, delivered, sawReject,
                 errorLog, lastImport, cancelled, succeeded, failed, accepted,
                 builtAtDelivery, buildsAtCancel,
                 requestVars, optVars>>

\* A later next(): the generator resumes after the yield, calls
\* preparePromise() and either awaits the new promise (watch) or returns,
\* which settles this next() with done: true (build.ts:86-90).
NextResume ==
  /\ consumer = "idle"
  /\ genPc = "yielded"
  /\ preparePromise
  /\ IF LoopAgain
       THEN genPc' = "awaitApp" /\ consumer' = "waiting" /\ UNCHANGED sawDone
       ELSE genPc' = "done" /\ consumer' = "idle" /\ sawDone' = TRUE
  /\ UNCHANGED <<watch, context, buildPc, buildNo, onEndResult, delivered, sawReject,
                 errorLog, lastImport, cancelled, succeeded, failed, accepted,
                 builtAtDelivery, buildsAtCancel,
                 requestVars, optVars>>

\* next() on a generator that has completed or thrown settles with done: true
\* (build.ts:15-18, async generator protocol).
NextAfterEnd ==
  /\ consumer = "idle"
  /\ genPc \in {"done", "threw"}
  /\ ~sawDone
  /\ sawDone' = TRUE
  /\ UNCHANGED <<watch, genPc, promiseState, appPromise, resolveApp, context, buildPc,
                 buildNo, onEndResult, consumer, delivered, sawReject, errorLog, lastImport,
                 cancelled, succeeded, failed, accepted, builtAtDelivery,
                 buildsAtCancel,
                 requestVars, optVars>>

\* The consumer ends consumption: return() on a generator suspended at its
\* start or at the yield completes it. The body has no try/finally, so no
\* code of the loader runs (build.ts:86-90; request/index.ts:46-58).
ConsumerReturn ==
  /\ consumer = "idle"
  /\ genPc \in {"start", "yielded"}
  /\ genPc' = "done"
  /\ consumer' = "stopped"
  /\ cancelled' = TRUE
  /\ buildsAtCancel' = buildNo
  /\ UNCHANGED <<watch, promiseState, appPromise, resolveApp, context, buildPc, buildNo,
                 onEndResult, delivered, sawDone, sawReject, errorLog, lastImport, succeeded,
                 failed, accepted, builtAtDelivery,
                 requestVars, optVars>>

\* ------------------------------------------------------------------------
\* The request command's loop over the loader's sequence
\* (request/index.ts:45-75).

\* What app.request() and the reading of its body come to: a response without
\* a zero byte in its first 2000, one with a zero byte, or a rejection
\* (request/index.ts:47, 53-54, 173-174, 231-240).
Responses == {"text", "binary", "throws"}

\* The handle the loop body is running on.
CurrentApp == delivered[Len(delivered)]

\* The loop body has run for every handle received so far.
BodyDone == Len(requested) = Len(delivered)

\* if (isBinaryData && !doSaveFile) { console.warn(...); return }
\* (request/index.ts:54-58).
StopsOnBinary(res) == res = "binary" /\ ~doSaveFile

\* One run of the loop body: the request is issued; a rejection leaves the
\* action, a binary response without a file to save it to warns and returns,
\* anything else is printed (text) and saved (when a file is asked for); a
\* failed save is caught and logged (request/index.ts:46-75, 98-119).
RequestExecute(res) ==
  /\ consumer = "idle"
  /\ genPc = "yielded"
  /\ ~BodyDone
  /\ requestExit = NoRequestExit
  /\ requested' = Append(requested, CurrentApp)
  /\ IF res = "throws"
       THEN requestExit' = "error" /\ UNCHANGED outputs
       ELSE IF StopsOnBinary(res)
         THEN requestExit' = "binaryWarning" /\ UNCHANGED outputs
         ELSE /\ outputs' = Append(outputs, [app    |-> CurrentApp,
                                              stdout |-> res = "text",
                                              file   |-> doSaveFile])
              /\ UNCHANGED requestExit
  /\ UNCHANGED <<watch, genPc, promiseState, appPromise, resolveApp, context, buildPc,
                 buildNo, onEndResult, consumer, delivered, sawDone, sawReject, errorLog,
                 lastImport, cancelled, succeeded, failed, accepted, builtAtDelivery,
                 buildsAtCancel, doSaveFile, optVars>>

\* The loop body completed normally: for await calls next() again
\* (request/index.ts:46).
RequestNextResume ==
  /\ BodyDone
  /\ requestExit = NoRequestExit
  /\ NextResume

\* The loop body was left by return or by an exception: for await closes the
\* iterator with return() (request/index.ts:46, 57).
RequestReturn ==
  /\ requestExit # NoRequestExit
  /\ ConsumerReturn

\* ------------------------------------------------------------------------
\* The optimize command (optimizeCommand's action).

\* Longest route table of the probed application.
MaxRoutes == 2

\* process exit code null: the subprocess was ended by a signal (child 'exit' event).
ExitNull == -1

\* No exit observed yet.
NoExit == -2

\* Route methods: hono's HTTP methods, METHOD_NAME_ALL, and a custom method
\* registered with app.on().
Methods == {"GET", "HEAD", "OPTIONS", "POST", "PUT", "PATCH", "DELETE", "ALL", "PURGE"}

\* Route paths; the second is the nested-alternation capture of
\* optimize/index.test.ts, which buildInitParams rejects.
Paths == {"/", "/foo/:capture{ba(r|z)}"}

UnsupportedPaths == {"/foo/:capture{ba(r|z)}"}

RouteEntries == [method : Methods, path : Paths]

RouteTables == UNION {[1..n -> RouteEntries] : n \in 0..MaxRoutes}

\* Exit codes of the probe: 0 (symbol present), 1 (absent or import failed),
\* another code, or null.
ExitCodes == {0, 1, 2, ExitNull}

\* String.prototype.toUpperCase on a method name.
toUpperCase(m) ==
  CASE m = "get" -> "GET"
    [] m = "head" -> "HEAD"
    [] m = "options" -> "OPTIONS"
    [] m = "post" -> "POST"
    [] m = "all" -> "ALL"
    [] OTHER -> m

\* app.routes.map(({ path }) => path)
PathsOf(rs) == [i \in DOMAIN rs |-> rs[i].path]

\* buildInitParams throws on a path the prepared format cannot express.
SerializeThrows(paths) == \E i \in DOMAIN paths : paths[i] \in UnsupportedPaths

\* serializeInitParams(buildInitParams({ paths })): the params are built from
\* the paths in registration order.
serializeInitParams(paths) == [kind |-> "initParams", paths |-> paths]

NoParams == [kind |-> "none", paths |-> <<>>]

\* A mutant of BodylessMethods: the wildcard method is not in the list.
BodylessMethods_NoAll == {"GET", "HEAD", "OPTIONS"}

\* [METHOD_NAME_ALL, 'GET', 'HEAD', 'OPTIONS']
BodylessMethods == {"ALL", "GET", "HEAD", "OPTIONS"}

\* A mutant of RequestBodyRemovable: some() in place of every().
RequestBodyRemovable_Some(rs, toggle) ==
  /\ toggle # FALSE
  /\ \E i \in DOMAIN rs : toUpperCase(rs[i].method) \in BodylessMethods

\* options.requestBodyApiRemoval !== false && app.routes.every(...)
RequestBodyRemovable(rs, toggle) ==
  /\ toggle # FALSE
  /\ \A i \in DOMAIN rs : toUpperCase(rs[i].method) \in BodylessMethods

\* Longest list of modules the probe build loads.
MaxFiles == 1

\* Largest number of lifecycle-method reads during the probe execution.
MaxRefs == 2

DEFAULT_ENTRY_CANDIDATES == <<"src/index.ts", "src/index.tsx", "src/index.js", "src/index.jsx">>

HONO_REMOVAL_METHODS == <<"route", "mount", "fire">>

REQUEST_BODY_METHODS ==
  <<"parseBody", "json", "text", "arrayBuffer", "blob", "formData", "#cachedBody">>

CONTEXT_RESPONSE_METHODS == <<"body", "json", "text", "html", "redirect">>

\* Entry arguments: "" stands for an argument that is not given.
EntryArgs == {"", "src/app.ts", "src/index.js"}

\* Files the working directory may hold.
EntryFiles == Range(DEFAULT_ENTRY_CANDIDATES) \cup {"src/app.ts"}

\* Values of --target: the default, another one esbuild accepts, and the
\* value of the invalid-target test.
Targets == {"node20", "es2022", "hoge"}

\* The targets esbuild accepts.
ValidTargets == {"node20", "es2022"}

\* Commands that resolve an entry and call the loader.
Commands == {"optimize", "request"}

\* Outcomes of the probe build: the application is delivered, esbuild.context
\* rejects, or the build or the import fails inside the build-end callback.
ProbeResults == {"ok", "contextRejects", "buildFails"}

\* The framework files the final build rewrites, one per category.
FrameworkFiles == {"request.js", "context.js", "hono-base.js"}

\* Hono instances of the probed program: the default export and a sub
\* application.
Objects == {"app", "sub"}

\* Endings of module paths, as character sequences.
Extensions == {<<".", "t", "s">>, <<".", "j", "s">>, <<".", "m", "j", "s">>}

\* An occurrence of a member name in a file's text: preceded by "." or not,
\* followed by "(" or not.
Occurrences == [name : Range(CONTEXT_RESPONSE_METHODS), dot : BOOLEAN, paren : BOOLEAN]

\* A loaded module: the end of its path, whether the path lies under
\* node_modules/hono/dist, and the occurrences in its text.
SourceFiles ==
  [ext : Extensions, framework : BOOLEAN,
   occ : {{}} \cup {{o} : o \in Occurrences}]

SourceFileLists == UNION {[1..n -> SourceFiles] : n \in 0..MaxFiles}

RefSets == {R \in SUBSET (Objects \X Range(HONO_REMOVAL_METHODS)) : Cardinality(R) <= MaxRefs}

NoError == [kind |-> "none", entry |-> ""]

NoOutput == [written |-> FALSE, request |-> {}, context |-> {}, hono |-> {}]

NoImport == [path |-> <<>>, importer |-> ""]

\* A mutant of existsSync: every path exists.
existsSync_Always(f) == f = f

\* existsSync(resolve(process.cwd(), f))
existsSync(f) == f \in fsFiles

\* DEFAULT_ENTRY_CANDIDATES.find(existsSync) ?? DEFAULT_ENTRY_CANDIDATES[0]
DefaultEntry ==
  IF \E i \in DOMAIN DEFAULT_ENTRY_CANDIDATES : existsSync(DEFAULT_ENTRY_CANDIDATES[i])
  THEN LET i == CHOOSE j \in DOMAIN DEFAULT_ENTRY_CANDIDATES :
                  /\ existsSync(DEFAULT_ENTRY_CANDIDATES[j])
                  /\ \A k \in 1..(j - 1) : ~existsSync(DEFAULT_ENTRY_CANDIDATES[k])
       IN DEFAULT_ENTRY_CANDIDATES[i]
  ELSE DEFAULT_ENTRY_CANDIDATES[1]

\* if (!entry) { entry = ... }
ResolveEntry(arg) == IF arg = "" THEN DefaultEntry ELSE arg

\* throw new Error(`Entry file ${entry} does not exist`)
EntryError(e) == [kind |-> "Entry file does not exist", entry |-> e]

\* Object.keys(undefined): TypeError, cannot convert undefined to object.
KeysError == [kind |-> "TypeError", entry |-> ""]

\* The rejection of esbuild.build or of the loader's first next().
BuildError == [kind |-> "build failed", entry |-> ""]

\* The onLoad filter /\.(?:jsx?|tsx?)/ searched in a module path: a "."
\* followed by "js" or "ts" somewhere in it.
FilterMatches(path) ==
  \E i \in 1..(Len(path) - 2) :
    /\ path[i] = "."
    /\ path[i + 1] \in {"j", "t"}
    /\ path[i + 2] = "s"

\* contextResponseMethodsRegExp on one occurrence. The pattern is
\* (?<=\.)n1|n2|...|nk(?=\() : the look-behind belongs to the first
\* alternative only and the look-ahead to the last only.
RegExpMatches(names, o) ==
  \E i \in DOMAIN names :
    /\ names[i] = o.name
    /\ i = 1 => o.dot
    /\ i = Len(names) => o.paren

\* readFileSync(path).match(contextResponseMethodsRegExp) || []
match(names, file) == {o.name : o \in {x \in file.occ : RegExpMatches(names, x)}}

\* [...unusedContextResponseMethods] when the pattern is built: the
\* catalogue, or nothing when the toggle is off.
RegExpNames == IF contextResponseApiRemoval THEN CONTEXT_RESPONSE_METHODS ELSE <<>>

\* The probe build's onLoad hook on one module: the set after the deletes.
ScanFile(unused, file) ==
  IF FilterMatches(file.ext) /\ ~file.framework
  THEN unused \ match(RegExpNames, file)
  ELSE unused

\* The unusedMethods field of one Hono instance after the bundle ran: every
\* getter that was read deleted its own key from its own instance's record.
unusedMethods(obj) == {m \in Range(HONO_REMOVAL_METHODS) : <<obj, m>> \notin probeRefs}

\* A mutant of RemoveHonoApi: the toggle is not consulted.
RemoveHonoApi_IgnoresToggle(toggle, unused) == unused # {}

\* options.honoApiRemoval !== false && Object.keys(unusedHonoMethods).length > 0
RemoveHonoApi(toggle, unused) == toggle # FALSE /\ unused # {}

\* A mutant of ContextMethodsToRemove: the whole catalogue is handed over.
ContextMethodsToRemove_Catalogue == Range(CONTEXT_RESPONSE_METHODS)

\* [...unusedContextResponseMethods] as passed to removeApis.
ContextMethodsToRemove == unusedContextResponseMethods

\* [...set] and Object.keys(record): the members that are left, in the order
\* they were inserted, which is the order of the catalogue.
InOrder(catalogue, S) == SelectSeq(catalogue, LAMBDA m : m \in S)

\* The `removed` list of the summary: the categories in the order of the
\* three push() calls, each with its member names in order.
Summary(reqBody, unusedContext, honoApi, unusedHono) ==
  (IF reqBody THEN <<[category |-> "Request body APIs", members |-> <<>>]>> ELSE <<>>)
  \o (IF unusedContext # {}
      THEN <<[category |-> "Context response APIs",
              members |-> InOrder(CONTEXT_RESPONSE_METHODS, unusedContext)]>>
      ELSE <<>>)
  \o (IF honoApi
      THEN <<[category |-> "Hono APIs",
              members |-> InOrder(HONO_REMOVAL_METHODS, unusedHono)]>>
      ELSE <<>>)

\* The framework files whose onLoad hook the final build registers.
RewrittenFiles ==
  (IF removeRequestBodyApi THEN {"request.js"} ELSE {})
  \cup (IF contextResponseApiRemoval THEN {"context.js"} ELSE {})
  \cup (IF removeHonoApi THEN {"hono-base.js"} ELSE {})

\* removeApis(contents, className, methods): the members it cuts out of the
\* class. parse() is called first and its exception is not caught.
removeApis(file, methods) == IF file \in RewrittenFiles THEN methods ELSE {}

\* esbuild.build rejects: an option is invalid, or a hook threw.
FinalBuildFails == target \notin ValidTargets \/ RewrittenFiles \cap parseFails # {}

\* ------------------------------------------------------------------------
\* Resolution and loading of one import in the final build (the hooks of
\* the hono-optimize plugin). A path is a sequence of pieces; an absolute
\* path is <<directory, "/", pieces of the file name>>.

\* Deepest nesting of build.resolve calls the model follows.
MaxDepth == 3

HonoDist == "/proj/node_modules/hono/dist"

SrcDir == "/proj/src"

OtherPkgDir == "/proj/node_modules/other/dist"

ProjectRoot == "/proj"

\* Directories of importing files: application code, the framework, and
\* another package.
ImporterDirs == {SrcDir, HonoDist, OtherPkgDir}

\* Import paths as written, and two entry points.
Specifiers ==
  {<<"hono">>, <<"hono", "/", "hono-base">>, <<"hono", "/", "tiny">>,
   <<"./", "request", ".js">>, <<"./", "context", ".js">>, <<"./", "hono-base", ".js">>,
   <<"./", "my-", "request", ".js">>, <<"./", "app", ".js">>,
   <<SrcDir, "/", "index", ".ts">>, <<SrcDir, "/", "request", ".js">>}

\* An import with no importer is an entry point or a build.resolve call.
Imports == [path : Specifiers, importer : ImporterDirs \cup {""}]

\* The resolve hooks in the order setup() registers them.
Hooks == <<"hono", "request", "context", "hono-base">>

EndsWith(path, suffix) ==
  /\ Len(path) >= Len(suffix)
  /\ SubSeq(path, Len(path) - Len(suffix) + 1, Len(path)) = suffix

\* The onResolve filters: /^hono$/, /request\.js$/, /context\.js$/ and
\* /hono-base\.js$|^hono\/hono-base$/.
ResolveFilter(hook, path) ==
  CASE hook = "hono" -> path = <<"hono">>
    [] hook = "request" -> EndsWith(path, <<"request", ".js">>)
    [] hook = "context" -> EndsWith(path, <<"context", ".js">>)
    [] hook = "hono-base" ->
         EndsWith(path, <<"hono-base", ".js">>) \/ path = <<"hono", "/", "hono-base">>

\* The hooks setup() registers: the first always, the others under
\* removeRequestBodyApi, options.contextResponseApiRemoval and removeHonoApi.
Registered(hook) ==
  CASE hook = "hono" -> TRUE
    [] hook = "request" -> removeRequestBodyApi
    [] hook = "context" -> contextResponseApiRemoval
    [] hook = "hono-base" -> removeHonoApi

\* A mutant of PseudoImportPath: every hook uses the first hook's name.
PseudoImportPath_Shared(hook) == IF hook = hook THEN "hono-optimized-pseudo-import-path" ELSE ""

\* The synthetic file name of each hook.
PseudoImportPath(hook) ==
  CASE hook = "hono" -> "hono-optimized-pseudo-import-path"
    [] hook = "request" -> "hono-optimized-request-pseudo-import-path"
    [] hook = "context" -> "hono-optimized-context-pseudo-import-path"
    [] hook = "hono-base" -> "hono-base-optimized-pseudo-import-path"

\* The file each load hook reads next to the synthetic path; the first
\* hook's content is generated.
OriginalFile(hook) ==
  CASE hook = "hono" -> <<"generated">>
    [] hook = "request" -> <<"request", ".js">>
    [] hook = "context" -> <<"context", ".js">>
    [] hook = "hono-base" -> <<"hono-base", ".js">>

\* The onLoad filters: new RegExp(`/${pseudoImportPath}$`)
LoadFilter(hook, path) == EndsWith(path, <<"/", PseudoImportPath(hook)>>)

\* dirname(path) and join(dir, name) of node:path.
dirname(path) ==
  LET last == CHOOSE i \in DOMAIN path :
                path[i] = "/" /\ \A j \in (i + 1)..Len(path) : path[j] # "/"
  IN SubSeq(path, 1, last - 1)

join(dir, name) == dir \o <<"/">> \o name

\* The directory a call resolves from: the importer's, or the working
\* directory for an entry point.
ResolveDir == IF rImport.importer = "" THEN ProjectRoot ELSE rImport.importer

\* esbuild's own resolution of a path from a directory.
DefaultResolve(path, dir) ==
  CASE path = <<"hono">> -> <<HonoDist, "/", "index", ".js">>
    [] path = <<"hono", "/", "hono-base">> -> <<HonoDist, "/", "hono-base", ".js">>
    [] path = <<"hono", "/", "tiny">> -> <<HonoDist, "/", "preset", "/", "tiny", ".js">>
    [] path[1] = "./" -> <<dir, "/">> \o Tail(path)
    [] OTHER -> path

\* A mutant of HookDeclines: the importer is not looked at.
HookDeclines_Never(importer) == importer # importer

\* if (!args.importer) { return undefined }
HookDeclines(importer) == importer = ""

\* A mutant of NestedImporter: the hook passes its own importer on.
NestedImporter_Kept == rImport.importer

\* The importer of the build.resolve call a hook issues: the call passes
\* kind and resolveDir only.
NestedImporter == ""

\* The registered hooks whose filter matches the path.
MatchingHooks(path) ==
  {i \in DOMAIN Hooks : Registered(Hooks[i]) /\ ResolveFilter(Hooks[i], path)}

\* The first of them: esbuild calls the hooks in registration order.
FirstHook(path) ==
  Hooks[CHOOSE i \in MatchingHooks(path) : \A j \in MatchingHooks(path) : i <= j]

\* The importer the hooks see in the call now running.
CallImporter == IF rDepth = 0 THEN rImport.importer ELSE NestedImporter

\* The action's own state before it runs.
OptFresh ==
  /\ serialized = NoParams
  /\ exitCode = NoExit
  /\ routerName = "none"
  /\ routerParams = NoParams
  /\ loadIdx = 0
  /\ unusedContextResponseMethods = {}
  /\ unusedHonoMethods = {}
  /\ removeRequestBodyApi = FALSE
  /\ removeHonoApi = FALSE
  /\ removed = <<>>
  /\ entry = ""
  /\ errorMessage = NoError
  /\ loaderInvoked = FALSE
  /\ probeBuildStarted = FALSE
  /\ subprocessStarted = FALSE
  /\ finalBuildStarted = FALSE
  /\ output = NoOutput

\* ------------------------------------------------------------------------
\* removeApis (README.md:653-717). A text is modelled by the top-level
\* statements @babel/parser reads from it, one declarator per declaration;
\* removing a member's source range takes the member out of its class and
\* leaves every other character where it was.

\* Longest member list of a class in the enumerated texts.
MaxMembers == 2

\* Class members: node type, type of the key node, name of the key.
ClassMembers ==
  [type : {"ClassMethod"}, keyType : {"Identifier", "StringLiteral"}, name : {"json", "raw"}]
    \cup [type : {"ClassProperty"}, keyType : {"Identifier"}, name : {"json", "raw"}]
    \cup [type : {"ClassPrivateProperty"}, keyType : {"PrivateName"},
          name : {"cachedBody", "validatedData"}]
    \cup [type : {"ClassPrivateMethod"}, keyType : {"PrivateName"}, name : {"cachedBody"}]

MemberLists == UNION {[1..n -> ClassMembers] : n \in 0..MaxMembers}

ClassNames == {"HonoRequest", "Context"}

\* Statements that bind a name: var X = class {...}, class X {...},
\* export var X = class {...}, var X = f(), var {X} = f().
BindingStatements ==
  [type : {"VariableDeclaration"}, idType : {"Identifier"}, name : ClassNames,
   init : {"ClassExpression"}, members : MemberLists]
    \cup [type : {"ExportNamedDeclaration"}, idType : {"Identifier"}, name : ClassNames,
          init : {"ClassExpression"}, members : MemberLists]
    \cup [type : {"ClassDeclaration"}, idType : {"Identifier"}, name : ClassNames,
          init : {"none"}, members : MemberLists]
    \cup [type : {"VariableDeclaration"}, idType : {"Identifier", "ObjectPattern"},
          name : ClassNames, init : {"CallExpression"}, members : {<<>>}]

\* A second class of the same text: var X = class { json() {...} }.
TrailingStatements ==
  [type : {"VariableDeclaration"}, idType : {"Identifier"}, name : ClassNames,
   init : {"ClassExpression"},
   members : {<<[type |-> "ClassMethod", keyType |-> "Identifier", name |-> "json"]>>}]

OtherStatement(t) ==
  [type |-> t, idType |-> "none", name |-> "", init |-> "none", members |-> <<>>]

\* A text @babel/parser rejects.
SyntaxErrorText == <<OtherStatement("SyntaxError")>>

\* import ...; <binding>; <class>; export { ... }
Contents ==
  {<<OtherStatement("ImportDeclaration"), s, t, OtherStatement("ExportNamedDeclaration")>> :
     s \in BindingStatements, t \in TrailingStatements}
    \cup {SyntaxErrorText}

\* Lists of names to remove.
MethodLists == {REQUEST_BODY_METHODS, <<"raw", "#validatedData">>, <<"cachedBody">>}

\* parse(contents, ...) throws on a syntax error (README.md:654-663).
Parses(contents) == \A i \in DOMAIN contents : contents[i].type # "SyntaxError"

\* `#${member.key.id.name}` (README.md:712).
PrivateKey(name) == "#" \o name

\* A mutant of shouldRemoveClassMember: the type of the key node is not
\* looked at.
shouldRemoveClassMember_AnyKey(member, methods) ==
  \/ /\ member.type \in {"ClassMethod", "ClassProperty"}
     /\ member.name \in Range(methods)
  \/ /\ member.type = "ClassPrivateProperty"
     /\ PrivateKey(member.name) \in Range(methods)

\* README.md:699-717.
shouldRemoveClassMember(member, methods) ==
  \/ /\ member.type \in {"ClassMethod", "ClassProperty"}
     /\ member.keyType = "Identifier"
     /\ member.name \in Range(methods)
  \/ /\ member.type = "ClassPrivateProperty"
     /\ member.keyType = "PrivateName"
     /\ PrivateKey(member.name) \in Range(methods)

\* The statements whose class body is edited (README.md:668-681).
DeclaresClass(statement, className) ==
  /\ statement.type = "VariableDeclaration"
  /\ statement.idType = "Identifier"
  /\ statement.name = className
  /\ statement.init = "ClassExpression"

\* The returned text: magic.remove(start, end) for each member to remove;
\* the text itself when nothing was removed (README.md:665-696).
removeApisText(contents, className, methods) ==
  [i \in DOMAIN contents |->
     IF DeclaresClass(contents[i], className)
       THEN [contents[i] EXCEPT
               !.members = SelectSeq(@, LAMBDA m : ~shouldRemoveClassMember(m, methods))]
       ELSE contents[i]]

\* removeApis is not being called.
RemoveIdle ==
  /\ rmContents = <<>>
  /\ rmClassName = ""
  /\ rmMethods = <<>>
  /\ rmPc = "idle"
  /\ rmResult = <<>>

\* No import is being resolved.
ResolveIdle ==
  /\ rImport = NoImport
  /\ rPc = "idle"
  /\ rDepth = 0
  /\ rMaxDepth = 0
  /\ rHookCalls = 0
  /\ rPath = <<>>
  /\ rRedirected = FALSE
  /\ rLoadMatches = {}
  /\ rContent = <<>>

\* `hono optimize` with no argument and the default options, in a project
\* with src/index.ts.
DefaultCommandLine ==
  /\ command = "optimize"
  /\ entryArg = ""
  /\ fsFiles = {"src/index.ts"}
  /\ target = "node20"

\* A project of one source module that names no response member, references
\* no lifecycle method, builds, and whose framework files parse.
PlainProject ==
  /\ sourceFiles = <<[ext |-> <<".", "t", "s">>, framework |-> FALSE, occ |-> {}]>>
  /\ probeRefs = {}
  /\ instrumented = TRUE
  /\ probeResult = "ok"
  /\ parseFails = {}

\* Route tables that take both branches of the serialization.
SmallRouteTables ==
  {<<>>, <<[method |-> "GET", path |-> "/"]>>,
   <<[method |-> "POST", path |-> "/foo/:capture{ba(r|z)}"]>>}

OptInit ==
  /\ optPc = "start"
  /\ OptFresh
  /\ ResolveIdle
  /\ RemoveIdle
  /\ DefaultCommandLine
  /\ PlainProject
  /\ routes \in RouteTables
  /\ requestBodyApiRemoval \in BOOLEAN
  /\ contextResponseApiRemoval = TRUE
  /\ honoApiRemoval = TRUE
  /\ frameworkHasPrepared \in BOOLEAN

\* The optimize variables while only the loader runs.
OptIdle ==
  /\ optPc = "idle"
  /\ OptFresh
  /\ ResolveIdle
  /\ RemoveIdle
  /\ DefaultCommandLine
  /\ PlainProject
  /\ routes = <<>>
  /\ requestBodyApiRemoval = TRUE
  /\ contextResponseApiRemoval = TRUE
  /\ honoApiRemoval = TRUE
  /\ frameworkHasPrepared = TRUE

\* Runs that differ in the modules the probe build loads.
ScanInit ==
  /\ optPc = "start"
  /\ OptFresh
  /\ ResolveIdle
  /\ RemoveIdle
  /\ DefaultCommandLine
  /\ sourceFiles \in SourceFileLists
  /\ probeRefs = {}
  /\ instrumented = TRUE
  /\ probeResult = "ok"
  /\ parseFails = {}
  /\ routes \in SmallRouteTables
  /\ requestBodyApiRemoval = TRUE
  /\ contextResponseApiRemoval \in BOOLEAN
  /\ honoApiRemoval = TRUE
  /\ frameworkHasPrepared = TRUE

\* Runs that differ in the toggles, in the lifecycle methods the program
\* reads, and in the framework files that parse.
\* Module lists of the runs that vary the toggles: a module that names no
\* member, one that calls c.json(, and one that mentions text in a string.
SmallFileLists ==
  {<<[ext |-> <<".", "t", "s">>, framework |-> FALSE, occ |-> {}]>>,
   <<[ext |-> <<".", "t", "s">>, framework |-> FALSE,
      occ |-> {[name |-> "json", dot |-> TRUE, paren |-> TRUE]}]>>,
   <<[ext |-> <<".", "j", "s">>, framework |-> FALSE,
      occ |-> {[name |-> "text", dot |-> FALSE, paren |-> TRUE]}]>>}

UsageInit ==
  /\ optPc = "start"
  /\ OptFresh
  /\ ResolveIdle
  /\ RemoveIdle
  /\ DefaultCommandLine
  /\ sourceFiles \in SmallFileLists
  /\ probeRefs \in RefSets
  /\ instrumented \in BOOLEAN
  /\ probeResult = "ok"
  /\ parseFails \in SUBSET FrameworkFiles
  /\ routes \in SmallRouteTables
  /\ requestBodyApiRemoval \in BOOLEAN
  /\ contextResponseApiRemoval \in BOOLEAN
  /\ honoApiRemoval \in BOOLEAN
  /\ frameworkHasPrepared = TRUE

\* Runs that differ in the command line, the files on disk and the outcome
\* of the probe build.
CmdInit ==
  /\ optPc = "start"
  /\ OptFresh
  /\ ResolveIdle
  /\ RemoveIdle
  /\ command \in Commands
  /\ entryArg \in EntryArgs
  /\ fsFiles \in SUBSET EntryFiles
  /\ target \in Targets
  /\ sourceFiles = <<[ext |-> <<".", "t", "s">>, framework |-> FALSE, occ |-> {}]>>
  /\ probeRefs = {}
  /\ instrumented = TRUE
  /\ probeResult \in ProbeResults
  /\ parseFails = {}
  /\ routes \in SmallRouteTables
  /\ requestBodyApiRemoval = TRUE
  /\ contextResponseApiRemoval = TRUE
  /\ honoApiRemoval = TRUE
  /\ frameworkHasPrepared = TRUE

\* optimize: the entry is resolved and checked before anything else.
OptResolveEntry ==
  /\ optPc = "start"
  /\ command = "optimize"
  /\ entry' = ResolveEntry(entryArg)
  /\ IF existsSync(entry')
     THEN optPc' = "setup" /\ errorMessage' = errorMessage
     ELSE optPc' = "failed" /\ errorMessage' = EntryError(entry')
  /\ UNCHANGED <<optIn, optRouter, optUsage, optDecision, loaderInvoked, probeBuildStarted,
                 subprocessStarted, finalBuildStarted, output, loaderVars, resolveVars>>

\* request: getBuildIterator resolves and checks the entry, then calls the
\* loader; the iteration over the loader is the first part of this module.
RequestGetBuildIterator ==
  /\ optPc = "start"
  /\ command = "request"
  /\ entry' = ResolveEntry(entryArg)
  /\ IF existsSync(entry')
     THEN optPc' = "requesting" /\ errorMessage' = errorMessage /\ loaderInvoked' = TRUE
     ELSE /\ optPc' = "failed"
          /\ errorMessage' = EntryError(entry')
          /\ loaderInvoked' = loaderInvoked
  /\ UNCHANGED <<optIn, optRouter, optUsage, optDecision, probeBuildStarted,
                 subprocessStarted, finalBuildStarted, output, loaderVars, resolveVars>>

\* The unused set and the pattern are created, the loader is called and its
\* first item is requested, which creates the build context and starts the
\* probe build. A rejected esbuild.context rejects that first item.
OptProbeStart ==
  /\ optPc = "setup"
  /\ unusedContextResponseMethods' =
       IF contextResponseApiRemoval THEN Range(CONTEXT_RESPONSE_METHODS) ELSE {}
  /\ loadIdx' = 0
  /\ loaderInvoked' = TRUE
  /\ probeBuildStarted' = TRUE
  /\ IF probeResult = "contextRejects"
     THEN optPc' = "failed" /\ errorMessage' = BuildError
     ELSE optPc' = "probeBuild" /\ errorMessage' = errorMessage
  /\ UNCHANGED <<optIn, optRouter, unusedHonoMethods, optDecision, entry,
                 subprocessStarted, finalBuildStarted, output, loaderVars, resolveVars>>

\* The probe build loads its next module: the onLoad hook of the plugin.
OptLoadFile ==
  /\ optPc = "probeBuild"
  /\ loadIdx < Len(sourceFiles)
  /\ loadIdx' = loadIdx + 1
  /\ unusedContextResponseMethods' =
       ScanFile(unusedContextResponseMethods, sourceFiles[loadIdx + 1])
  /\ UNCHANGED <<optPc, optIn, optRouter, unusedHonoMethods, optDecision, optEffects,
                 loaderVars, resolveVars>>

\* A mutant of OptProbeBuild: the action goes on whatever the probe build
\* gave.
OptProbeBuild_IgnoresFailure ==
  /\ optPc = "probeBuild"
  /\ loadIdx = Len(sourceFiles)
  /\ optPc' = "serialize"
  /\ UNCHANGED <<optIn, optRouter, optUsage, optDecision, optEffects, loaderVars, resolveVars>>

\* (await buildIterator.next()).value: the probe build delivered the
\* application, or it failed and the one-shot loader never settles the item.
OptProbeBuild ==
  /\ optPc = "probeBuild"
  /\ loadIdx = Len(sourceFiles)
  /\ optPc' = IF probeResult = "ok" THEN "serialize" ELSE "hung"
  /\ UNCHANGED <<optIn, optRouter, optUsage, optDecision, optEffects, loaderVars, resolveVars>>

\* The serialization succeeded; the probe subprocess is started.
OptSerializeOk ==
  /\ optPc = "serialize"
  /\ ~SerializeThrows(PathsOf(routes))
  /\ serialized' = serializeInitParams(PathsOf(routes))
  /\ subprocessStarted' = TRUE
  /\ optPc' = "probe"
  /\ UNCHANGED <<optIn, exitCode, routerName, routerParams, optUsage, optDecision, entry,
                 errorMessage, loaderInvoked, probeBuildStarted, finalBuildStarted, output,
                 loaderVars, resolveVars>>

\* A mutant of OptSerializeThrows: the exception is not caught.
OptSerializeThrows_Propagates ==
  /\ optPc = "serialize"
  /\ SerializeThrows(PathsOf(routes))
  /\ optPc' = "failed"
  /\ UNCHANGED <<optIn, optRouter, optUsage, optDecision, optEffects, loaderVars, resolveVars>>

\* The serialization threw: catch { routerName = 'TrieRouter' ... }
OptSerializeThrows ==
  /\ optPc = "serialize"
  /\ SerializeThrows(PathsOf(routes))
  /\ routerName' = "TrieRouter"
  /\ optPc' = "decide"
  /\ UNCHANGED <<optIn, serialized, exitCode, routerParams, optUsage, optDecision,
                 optEffects, loaderVars, resolveVars>>

\* A mutant of OptProbeExit: resolve(code !== 1).
OptProbeExit_NotOne(code) ==
  /\ optPc = "probe"
  /\ code = 0 => frameworkHasPrepared
  /\ exitCode' = code
  /\ routerName' = IF code # 1 THEN "PreparedRegExpRouter" ELSE "RegExpRouter"
  /\ routerParams' = IF code # 1 THEN serialized ELSE NoParams
  /\ optPc' = "decide"
  /\ UNCHANGED <<optIn, serialized, optUsage, optDecision, optEffects, loaderVars, resolveVars>>

\* The probe subprocess exited: resolve(code === 0), then the router is
\* chosen. The probe script exits 0 only when the symbol is present.
OptProbeExit(code) ==
  /\ optPc = "probe"
  /\ code = 0 => frameworkHasPrepared
  /\ exitCode' = code
  /\ routerName' = IF code = 0 THEN "PreparedRegExpRouter" ELSE "RegExpRouter"
  /\ routerParams' = IF code = 0 THEN serialized ELSE NoParams
  /\ optPc' = "decide"
  /\ UNCHANGED <<optIn, serialized, optUsage, optDecision, optEffects, loaderVars, resolveVars>>

\* The removal decisions and the console summary. An application that is
\* not an instance of the stand-in class has no unusedMethods field:
\* Object.keys(undefined) throws once the toggle lets it be evaluated.
OptDecideRemoval ==
  /\ optPc = "decide"
  /\ IF honoApiRemoval # FALSE /\ ~instrumented
     THEN /\ optPc' = "failed"
          /\ errorMessage' = KeysError
          /\ UNCHANGED <<optDecision, unusedHonoMethods>>
     ELSE /\ removeRequestBodyApi' = RequestBodyRemovable(routes, requestBodyApiRemoval)
          /\ unusedHonoMethods' = IF instrumented THEN unusedMethods("app") ELSE {}
          /\ removeHonoApi' = RemoveHonoApi(honoApiRemoval, unusedHonoMethods')
          /\ removed' = Summary(removeRequestBodyApi', unusedContextResponseMethods,
                                removeHonoApi', unusedHonoMethods')
          /\ optPc' = "finalBuild"
          /\ errorMessage' = errorMessage
  /\ UNCHANGED <<optIn, optRouter, loadIdx, unusedContextResponseMethods, entry,
                 loaderInvoked, probeBuildStarted, subprocessStarted, finalBuildStarted,
                 output, loaderVars, resolveVars>>

\* esbuild.build(...) of the final bundle and the output line. The build
\* rejects on an option esbuild does not accept and on an exception of a
\* hook; otherwise the artifact is written with the members cut out.
OptFinalBuild ==
  /\ optPc = "finalBuild"
  /\ finalBuildStarted' = TRUE
  /\ IF FinalBuildFails
     THEN optPc' = "failed" /\ errorMessage' = BuildError /\ output' = output
     ELSE /\ optPc' = "done"
          /\ errorMessage' = errorMessage
          /\ output' = [written |-> TRUE,
                        request |-> removeApis("request.js", Range(REQUEST_BODY_METHODS)),
                        context |-> removeApis("context.js", ContextMethodsToRemove),
                        hono |-> removeApis("hono-base.js", unusedHonoMethods)]
  /\ UNCHANGED <<optIn, optRouter, optUsage, optDecision, entry, loaderInvoked,
                 probeBuildStarted, subprocessStarted, loaderVars, resolveVars>>

\* The command just before esbuild.build of the final bundle, for a project
\* whose probe build went through: the decisions are those of
\* OptDecideRemoval. One import of the final build is about to be resolved.
ResolveInit ==
  /\ optPc = "finalBuild"
  /\ DefaultCommandLine
  /\ PlainProject
  /\ routes \in SmallRouteTables
  /\ requestBodyApiRemoval \in BOOLEAN
  /\ contextResponseApiRemoval \in BOOLEAN
  /\ honoApiRemoval \in BOOLEAN
  /\ frameworkHasPrepared = TRUE
  /\ serialized = IF SerializeThrows(PathsOf(routes)) THEN NoParams
                  ELSE serializeInitParams(PathsOf(routes))
  /\ exitCode = IF SerializeThrows(PathsOf(routes)) THEN NoExit ELSE 0
  /\ routerName = IF SerializeThrows(PathsOf(routes)) THEN "TrieRouter"
                  ELSE "PreparedRegExpRouter"
  /\ routerParams = serialized
  /\ loadIdx = Len(sourceFiles)
  /\ unusedContextResponseMethods =
       IF contextResponseApiRemoval THEN Range(CONTEXT_RESPONSE_METHODS) ELSE {}
  /\ unusedHonoMethods = unusedMethods("app")
  /\ removeRequestBodyApi = RequestBodyRemovable(routes, requestBodyApiRemoval)
  /\ removeHonoApi = RemoveHonoApi(honoApiRemoval, unusedHonoMethods)
  /\ removed = Summary(removeRequestBodyApi, unusedContextResponseMethods,
                       removeHonoApi, unusedHonoMethods)
  /\ entry = "src/index.ts"
  /\ errorMessage = NoError
  /\ loaderInvoked = TRUE
  /\ probeBuildStarted = TRUE
  /\ subprocessStarted = ~SerializeThrows(PathsOf(routes))
  /\ finalBuildStarted = FALSE
  /\ output = NoOutput
  /\ rImport \in Imports
  /\ rPc = "resolve"
  /\ rDepth = 0
  /\ rMaxDepth = 0
  /\ rHookCalls = 0
  /\ rPath = <<>>
  /\ rRedirected = FALSE
  /\ rLoadMatches = {}
  /\ rContent = <<>>
  /\ RemoveIdle

\* A hook whose filter matches is called with an importer: it asks esbuild
\* for the original path with build.resolve, which runs the hooks again.
ResolveHook ==
  /\ rPc = "resolve"
  /\ MatchingHooks(rImport.path) # {}
  /\ ~HookDeclines(CallImporter)
  /\ rHookCalls' = rHookCalls + 1
  /\ IF rDepth < MaxDepth
     THEN /\ rDepth' = rDepth + 1
          /\ rMaxDepth' = IF rDepth + 1 > rMaxDepth THEN rDepth + 1 ELSE rMaxDepth
          /\ rPc' = rPc
     ELSE rPc' = "overflow" /\ UNCHANGED <<rDepth, rMaxDepth>>
  /\ UNCHANGED <<optPc, optIn, optRouter, optUsage, optDecision, optEffects, rImport,
                 rPath, rRedirected, rLoadMatches, rContent, loaderVars, removeVars>>

\* No hook takes the path (none matches, or each one called returns
\* undefined): esbuild resolves it itself. Every hook waiting on a
\* build.resolve call then returns join(dirname(resolved.path), pseudo).
ResolveDefault ==
  /\ rPc = "resolve"
  /\ MatchingHooks(rImport.path) = {} \/ HookDeclines(CallImporter)
  /\ rHookCalls' = rHookCalls + Cardinality(MatchingHooks(rImport.path))
  /\ rPath' = IF rDepth > 0
              THEN join(dirname(DefaultResolve(rImport.path, ResolveDir)),
                        <<PseudoImportPath(FirstHook(rImport.path))>>)
              ELSE DefaultResolve(rImport.path, ResolveDir)
  /\ rRedirected' = (rDepth > 0)
  /\ rDepth' = 0
  /\ rPc' = "load"
  /\ UNCHANGED <<optPc, optIn, optRouter, optUsage, optDecision, optEffects, rImport,
                 rMaxDepth, rLoadMatches, rContent, loaderVars, removeVars>>

\* esbuild loads the resolved path: a load hook whose filter matches gives
\* the content (generated, or read from the original file next to the
\* synthetic path); otherwise the file itself is read.
LoadModule ==
  /\ rPc = "load"
  /\ rLoadMatches' = {i \in DOMAIN Hooks : Registered(Hooks[i]) /\ LoadFilter(Hooks[i], rPath)}
  /\ rContent' =
       IF rLoadMatches' = {} THEN rPath
       ELSE LET h == Hooks[CHOOSE i \in rLoadMatches' : \A j \in rLoadMatches' : i <= j]
            IN IF h = "hono" THEN OriginalFile(h)
               ELSE join(dirname(rPath), OriginalFile(h))
  /\ rPc' = "done"
  /\ UNCHANGED <<optPc, optIn, optRouter, optUsage, optDecision, optEffects, rImport,
                 rDepth, rMaxDepth, rHookCalls, rPath, rRedirected, loaderVars, removeVars>>

Init == LoaderInit /\ RequestIdle /\ OptIdle

Next ==
  \/ NextStart
  \/ ContextReady
  \/ ContextFails
  \/ WatchReady
  \/ DisposeDone
  \/ FileChange
  \/ \E r \in BuildResults : BuildEnd(r)
  \/ OnEndResolve
  \/ OnEndError
  \/ Deliver
  \/ NextResume
  \/ NextAfterEnd
  \/ ConsumerReturn

Spec == Init /\ [][Next]_vars

\* The loader's scheduling: a resolved await continues (the microtask queue
\* runs), and esbuild answers watch().
FairSpec == Spec /\ WF_vars(Deliver) /\ WF_vars(WatchReady)

OptStartState == OptInit /\ LoaderInit /\ RequestIdle /\ watch = FALSE

OptNext ==
  \/ OptResolveEntry
  \/ OptProbeStart
  \/ OptLoadFile
  \/ OptProbeBuild
  \/ OptSerializeOk
  \/ OptSerializeThrows
  \/ \E code \in ExitCodes : OptProbeExit(code)
  \/ OptDecideRemoval
  \/ OptFinalBuild

OptSpec == OptStartState /\ [][OptNext]_vars

\* The optimize command over the modules of the probe build.
ScanStartState == ScanInit /\ LoaderInit /\ RequestIdle /\ watch = FALSE

ScanSpec == ScanStartState /\ [][OptNext]_vars

\* The optimize command over the toggles and the program's lifecycle reads.
UsageStartState == UsageInit /\ LoaderInit /\ RequestIdle /\ watch = FALSE

UsageSpec == UsageStartState /\ [][OptNext]_vars

\* The two commands that resolve an entry.
CmdStartState == CmdInit /\ LoaderInit /\ RequestIdle /\ watch = FALSE

CmdNext ==
  \/ OptNext
  \/ RequestGetBuildIterator

CmdSpec == CmdStartState /\ [][CmdNext]_vars

\* The resolution of one import of the final build.
ResolveStartState == ResolveInit /\ LoaderInit /\ RequestIdle /\ watch = FALSE

ResolveNext ==
  \/ ResolveHook
  \/ ResolveDefault
  \/ LoadModule

ResolveSpec == ResolveStartState /\ [][ResolveNext]_vars

\* The request command: any save option, watching or not
\* (request/index.ts:41-45).
RequestInit ==
  /\ optPc = "idle"
  /\ OptFresh
  /\ ResolveIdle
  /\ RemoveIdle
  /\ PlainProject
  /\ command = "request"
  /\ entryArg = ""
  /\ fsFiles = {"src/index.ts"}
  /\ target = "node20"
  /\ routes = <<>>
  /\ requestBodyApiRemoval = TRUE
  /\ contextResponseApiRemoval = TRUE
  /\ honoApiRemoval = TRUE
  /\ frameworkHasPrepared = TRUE
  /\ doSaveFile \in BOOLEAN
  /\ requested = <<>>
  /\ outputs = <<>>
  /\ requestExit = NoRequestExit

RequestStartState == RequestInit /\ LoaderInit

\* The loader driven by the request command's loop.
RequestNext ==
  \/ NextStart
  \/ ContextReady
  \/ ContextFails
  \/ WatchReady
  \/ DisposeDone
  \/ FileChange
  \/ \E r \in BuildResults : BuildEnd(r)
  \/ OnEndResolve
  \/ OnEndError
  \/ Deliver
  \/ \E res \in Responses : RequestExecute(res)
  \/ RequestNextResume
  \/ RequestReturn

RequestSpec == RequestStartState /\ [][RequestNext]_vars

\* One call of removeApis: a text that does not parse makes it throw;
\* otherwise the text without the removed members is returned
\* (README.md:653-697).
RemoveApis ==
  /\ rmPc = "call"
  /\ IF Parses(rmContents)
       THEN /\ rmResult' = removeApisText(rmContents, rmClassName, rmMethods)
            /\ rmPc' = "returned"
       ELSE /\ rmPc' = "threw"
            /\ UNCHANGED rmResult
  /\ UNCHANGED <<optPc, optIn, optRouter, optUsage, optDecision, optEffects, rImport, rPc,
                 rDepth, rMaxDepth, rHookCalls, rPath, rRedirected, rLoadMatches, rContent,
                 rmContents, rmClassName, rmMethods, loaderVars>>

\* removeApis called on any of the enumerated texts and lists.
RemoveInit ==
  /\ optPc = "idle"
  /\ OptFresh
  /\ ResolveIdle
  /\ DefaultCommandLine
  /\ PlainProject
  /\ routes = <<>>
  /\ requestBodyApiRemoval = TRUE
  /\ contextResponseApiRemoval = TRUE
  /\ honoApiRemoval = TRUE
  /\ frameworkHasPrepared = TRUE
  /\ rmContents \in Contents
  /\ rmClassName = "HonoRequest"
  /\ rmMethods \in MethodLists
  /\ rmPc = "call"
  /\ rmResult = <<>>

RemoveStartState == RemoveInit /\ LoaderInit /\ RequestIdle /\ watch = FALSE

RemoveNext == RemoveApis

RemoveSpec == RemoveStartState /\ [][RemoveNext]_vars

\* ------------------------------------------------------------------------
\* Properties of the optimize command (checked under OptSpec).

RouterChosen == optPc \in {"decide", "finalBuild", "done"}

RemovalDecided == optPc \in {"finalBuild", "done"}

HasMethod(ms) == \E i \in DOMAIN routes : routes[i].method \in ms

OnlyMethods(ms) == \A i \in DOMAIN routes : routes[i].method \in ms

\* C1: when the serialization of the route paths succeeds, the router is
\* PreparedRegExpRouter carrying the serialized params if and only if the
\* probe subprocess exited with code 0; any other exit (another code, or
\* null after a signal) gives RegExpRouter, and the invocation does not fail.
C1_PreparedIffExitZero ==
  (RouterChosen /\ ~SerializeThrows(PathsOf(routes))) =>
    /\ exitCode # NoExit
    /\ (routerName = "PreparedRegExpRouter") <=> (exitCode = 0)
    /\ (exitCode = 0) => routerParams = [kind |-> "initParams", paths |-> PathsOf(routes)]
    /\ (exitCode # 0) => (routerName = "RegExpRouter" /\ routerParams = NoParams)
    /\ optPc # "failed"

C1_Witness ==
  /\ optPc = "done"
  /\ routes # <<>>
  /\ exitCode = ExitNull
  /\ frameworkHasPrepared
  /\ routerName = "RegExpRouter"

\* C2: when the serialization of the route paths throws, the router is
\* TrieRouter whether or not the framework has the prepared router, no probe
\* exit is consulted, and the invocation goes on to the final build.
C2_SerializeThrowsGivesTrie ==
  /\ optPc # "failed"
  /\ (RouterChosen /\ SerializeThrows(PathsOf(routes))) =>
       /\ routerName = "TrieRouter"
       /\ routerParams = NoParams
       /\ exitCode = NoExit

C2_Witness ==
  /\ optPc = "done"
  /\ frameworkHasPrepared
  /\ \E i \in DOMAIN routes : routes[i].path = "/foo/:capture{ba(r|z)}"
  /\ routerName = "TrieRouter"

\* C3: with the request-body toggle enabled, a route table whose methods are
\* all GET, HEAD or OPTIONS is eligible for request-body removal, and a route
\* table with a POST, PUT, PATCH or DELETE route is not.
C3_BodylessEligible ==
  (RemovalDecided /\ requestBodyApiRemoval) =>
    /\ OnlyMethods({"GET", "HEAD", "OPTIONS"}) => removeRequestBodyApi
    /\ HasMethod({"POST", "PUT", "PATCH", "DELETE"}) => ~removeRequestBodyApi

C3_Witness ==
  /\ optPc = "done"
  /\ requestBodyApiRemoval
  /\ Len(routes) = MaxRoutes
  /\ OnlyMethods({"GET", "HEAD", "OPTIONS"})
  /\ HasMethod({"HEAD"})
  /\ removeRequestBodyApi

\* C4 as claimed: a route table that contains an ALL route is never eligible
\* for request-body removal.
C4_AllRouteBlocksRemoval ==
  (RemovalDecided /\ HasMethod({"ALL"})) => ~removeRequestBodyApi

\* C4 as amended: an ALL route counts as body-less. With the toggle enabled, a
\* route table that contains an ALL route is eligible when every other route
\* is GET, HEAD, OPTIONS or ALL, and is not eligible when some route has
\* another method.
C4_AllRouteIsBodyless ==
  (RemovalDecided /\ requestBodyApiRemoval /\ HasMethod({"ALL"})) =>
    /\ OnlyMethods({"ALL", "GET", "HEAD", "OPTIONS"}) => removeRequestBodyApi
    /\ ~OnlyMethods({"ALL", "GET", "HEAD", "OPTIONS"}) => ~removeRequestBodyApi

C4_Witness ==
  /\ optPc = "done"
  /\ requestBodyApiRemoval
  /\ HasMethod({"ALL"})
  /\ HasMethod({"GET"})
  /\ removeRequestBodyApi

\* ------------------------------------------------------------------------
\* Properties of the module loader (checked under Spec and FairSpec).

\* Promises that were resolved with a handle the consumer has not received.
Undelivered ==
  {i \in DOMAIN promiseState :
     promiseState[i] # Pending /\ promiseState[i] \notin Range(delivered)}

\* The consumer pulled and waits on an item that is not settled.
WaitingOnPending ==
  /\ consumer = "waiting"
  /\ genPc = "awaitApp"
  /\ promiseState[appPromise] = Pending

\* C5 as claimed: in watch mode no successful rebuild's handle is lost: when
\* the consumer has pulled again and waits on an unsettled item, every
\* successful rebuild so far has been delivered.
C5_EveryRebuildDelivered ==
  (watch /\ WaitingOnPending) => succeeded \subseteq Range(delivered)

\* C5 as amended: in watch mode no handle is delivered twice, every delivered
\* handle comes from a successful rebuild whose resolveApp call settled the
\* pending promise, and every such rebuild is either delivered or is the
\* value of the awaited promise with the consumer's next() waiting for it. A
\* successful rebuild that ends while the promise is already settled (a
\* handle is in flight, or the consumer has not pulled again) is dropped.
C5_AcceptedDeliveredOnce ==
  watch =>
    /\ \A i, j \in DOMAIN delivered : i # j => delivered[i] # delivered[j]
    /\ Range(delivered) \subseteq accepted
    /\ accepted \subseteq succeeded
    /\ \A h \in accepted :
         \/ h \in Range(delivered)
         \/ /\ promiseState[appPromise] = h
            /\ consumer = "waiting"
            /\ genPc \in {"watching", "awaitApp"}

C5_Witness ==
  /\ watch
  /\ Len(delivered) >= 2
  /\ succeeded \ accepted # {}
  /\ Range(delivered) = accepted

\* C6: in watch mode at most one resolved handle is undelivered at any time,
\* handles arrive in strictly increasing build order, and a pull never
\* returns a handle as old as the newest build that had succeeded when the
\* previous pull completed.
C6_SingleInFlightOrdered ==
  watch =>
    /\ Cardinality(Undelivered) <= 1
    /\ Len(builtAtDelivery) = Len(delivered)
    /\ \A i, j \in DOMAIN delivered : i < j => delivered[i] < delivered[j]
    /\ \A k \in DOMAIN delivered :
         k + 1 \in DOMAIN delivered => delivered[k + 1] > builtAtDelivery[k]

C6_Witness ==
  /\ watch
  /\ Len(delivered) >= 2
  /\ builtAtDelivery[1] > delivered[1]

\* C7 as claimed: in one-shot mode, once the build has failed and the build
\* session is released, the consumer's next() has been rejected.
C7_OneShotFailureRejects ==
  (~watch /\ context = "disposed" /\ buildPc = "idle" /\ succeeded = {} /\ failed # {})
    => (sawReject /\ consumer # "waiting")

\* C8: in watch mode a build-end callback that fails logs one error and
\* changes nothing else of the sequence (the generator, the pending next(),
\* the promises, the delivered handles); a successful callback that finds the
\* consumer waiting on the pending promise resolves it with its handle; and a
\* handle accepted after a failed rebuild is eventually delivered.
C8_FailedRebuildKeepsWaiting ==
  /\ [][ /\ (watch /\ buildPc = "onEnd" /\ buildPc' = "idle"
               /\ ~validApp(importModule(onEndResult))) =>
               /\ errorLog' = errorLog + 1
               /\ genPc' = genPc
               /\ consumer' = consumer
               /\ sawReject' = sawReject
               /\ sawDone' = sawDone
               /\ delivered' = delivered
               /\ promiseState' = promiseState
               /\ appPromise' = appPromise
               /\ resolveApp' = resolveApp
         /\ (watch /\ buildPc = "onEnd" /\ buildPc' = "idle" /\ WaitingOnPending
               /\ validApp(importModule(onEndResult))) =>
               promiseState'[appPromise] = buildNo
      ]_vars
  /\ \A h \in 1..MaxBuilds :
       (watch /\ h \in accepted /\ \E f \in failed : f < h) ~> (h \in Range(delivered))

C8_Witness ==
  /\ watch
  /\ errorLog > 0
  /\ \E k \in DOMAIN delivered :
       /\ delivered[k] - 1 \in failed
       /\ k > 1

\* C9 as claimed: once the consumer has ended consumption of the watch
\* sequence the build session is disposed, so no rebuild started after the
\* cancellation executes user code (a build in flight may still finish).
C9_CancelStopsRebuilds ==
  (watch /\ cancelled) => lastImport <= buildsAtCancel

\* C10: with watch disabled the sequence delivers at most one handle, never
\* waits for another after it, and when it completes without being cancelled
\* it has delivered exactly one handle and the pull that followed reported
\* done; with watch enabled the sequence completes only when the consumer
\* cancels it.
C10_OneShotCompletes ==
  /\ ~watch =>
       /\ Len(delivered) <= 1
       /\ Len(delivered) = 1 => genPc \in {"yielded", "done"}
       /\ (genPc = "done" /\ ~cancelled) =>
            (Len(delivered) = 1 /\ sawDone /\ consumer = "idle")
  /\ watch =>
       /\ genPc = "done" => cancelled
       /\ sawDone => (cancelled \/ sawReject)

C10_Witness ==
  /\ ~watch
  /\ ~cancelled
  /\ genPc = "done"
  /\ sawDone
  /\ delivered = <<1>>

\* C11: when the first handle has been delivered the build context is
\* disposed if and only if watch is false; in watch mode the loader never
\* disposes the context, and in one-shot mode no handle is delivered before
\* the dispose.
C11_DisposedIffOneShot ==
  /\ delivered # <<>> => ((context = "disposed") <=> ~watch)
  /\ watch => context # "disposed"
  /\ (~watch /\ genPc \in {"awaitApp", "yielded"}) => context = "disposed"

C11_Witness ==
  /\ ~watch
  /\ delivered = <<1>>
  /\ context = "disposed"
  /\ genPc = "yielded"

ProbeDelivered == optPc \in {"serialize", "probe", "decide", "finalBuild", "done"}

\* The member names the textual scan deleted from the unused set.
ScanMarked ==
  UNION {IF FilterMatches(sourceFiles[i].ext) /\ ~sourceFiles[i].framework
         THEN match(RegExpNames, sourceFiles[i])
         ELSE {} : i \in DOMAIN sourceFiles}

\* C13: for each of body, json, text, html and redirect, when a non-framework
\* file loaded during the probe build contains the member name preceded by
\* "." and followed by "(", the member is not in the unused set after the
\* probe build and is not cut out of the artifact.
C13_TextualOccurrenceRetained ==
  ProbeDelivered =>
    \A i \in DOMAIN sourceFiles : \A o \in sourceFiles[i].occ :
      (~sourceFiles[i].framework /\ o.dot /\ o.paren) =>
        /\ o.name \notin unusedContextResponseMethods
        /\ o.name \notin output.context

\* C14: once the unused sets exist they never get a member back, and a
\* member the textual scan marked used is not among the members cut out of
\* the Context class.
C14_UsedSetOnlyGrows ==
  /\ [][optPc \notin {"start", "setup"} =>
          /\ unusedContextResponseMethods' \subseteq unusedContextResponseMethods
          /\ (optPc # "decide" => unusedHonoMethods' = unusedHonoMethods)]_vars
  /\ [](output.context \cap ScanMarked = {})

C14_Witness ==
  /\ optPc = "done"
  /\ output.written
  /\ ScanMarked = {"json"}
  /\ output.context = Range(CONTEXT_RESPONSE_METHODS) \ {"json"}

\* The categories named in the summary.
SummaryCategories == {removed[i].category : i \in DOMAIN removed}

\* The summary category of a framework file.
CategoryOf(file) ==
  CASE file = "request.js" -> "Request body APIs"
    [] file = "context.js" -> "Context response APIs"
    [] file = "hono-base.js" -> "Hono APIs"

\* The members cut out of a framework file in the artifact.
RemovedFrom(file) ==
  CASE file = "request.js" -> output.request
    [] file = "context.js" -> output.context
    [] file = "hono-base.js" -> output.hono

\* C15: after the probe, a lifecycle method (route, mount, fire) that was
\* referenced at any point of the probe execution, on any application
\* object, is not flagged unused and is not cut out of the artifact.
C15_ReferencedLifecycleKept ==
  RemovalDecided =>
    \A ref \in probeRefs :
      /\ ref[2] \notin unusedHonoMethods
      /\ ref[2] \notin output.hono

\* C16: when a toggle (request-body, response, lifecycle) is disabled, no
\* member of its category is cut out and the summary does not name the
\* category.
C16_DisabledToggleRemovesNothing ==
  /\ ~requestBodyApiRemoval =>
       output.request = {} /\ "Request body APIs" \notin SummaryCategories
  /\ ~contextResponseApiRemoval =>
       output.context = {} /\ "Context response APIs" \notin SummaryCategories
  /\ ~honoApiRemoval =>
       output.hono = {} /\ "Hono APIs" \notin SummaryCategories

C16_Witness ==
  /\ optPc = "done"
  /\ output.written
  /\ ~requestBodyApiRemoval /\ ~contextResponseApiRemoval /\ ~honoApiRemoval
  /\ routes = <<>>
  /\ unusedHonoMethods = Range(HONO_REMOVAL_METHODS)
  /\ removed = <<>>
  /\ output.request = {} /\ output.context = {} /\ output.hono = {}

\* C17: when a packaged framework file that the final build rewrites cannot
\* be parsed, the command does not fail: the artifact is written with that
\* file's original content and the summary does not name its category.
C17_ParseFailureSkipsCategory ==
  finalBuildStarted =>
    \A file \in RewrittenFiles \cap parseFails :
      /\ optPc = "done"
      /\ output.written
      /\ RemovedFrom(file) = {}
      /\ CategoryOf(file) \notin SummaryCategories

\* ------------------------------------------------------------------------
\* Properties of the command line handling (checked under CmdSpec).

\* The entry the commands are documented to use: the argument, else the
\* first candidate that exists, else src/index.ts.
ExpectedEntry ==
  IF entryArg # "" THEN entryArg
  ELSE IF "src/index.ts" \in fsFiles THEN "src/index.ts"
  ELSE IF "src/index.tsx" \in fsFiles THEN "src/index.tsx"
  ELSE IF "src/index.js" \in fsFiles THEN "src/index.js"
  ELSE IF "src/index.jsx" \in fsFiles THEN "src/index.jsx"
  ELSE "src/index.ts"

\* C18: with a target outside the accepted values, optimize fails before any
\* build work: the probe build, the capability subprocess and the final
\* build are not started.
C18_InvalidTargetFailsFirst ==
  (command = "optimize" /\ target \notin ValidTargets) =>
    /\ ~probeBuildStarted
    /\ ~subprocessStarted
    /\ ~finalBuildStarted

\* C19: when the entry (the explicit one, or the first existing candidate of
\* src/index.ts, .tsx, .js, .jsx, else src/index.ts) does not exist, optimize
\* and request fail at once with an error that names the entry, and the
\* loader is never invoked.
C19_MissingEntryFailsFirst ==
  /\ optPc # "start" => entry = ExpectedEntry
  /\ ExpectedEntry \notin fsFiles =>
       /\ ~loaderInvoked
       /\ ~probeBuildStarted
       /\ optPc \in {"start", "failed"}
       /\ optPc = "failed" =>
            errorMessage = [kind |-> "Entry file does not exist", entry |-> ExpectedEntry]

C19_Witness ==
  /\ command = "request"
  /\ entryArg = ""
  /\ fsFiles = {"src/app.ts"}
  /\ optPc = "failed"
  /\ errorMessage.entry = "src/index.ts"
  /\ ~loaderInvoked

\* C20: the final build is started only after the probe build delivered the
\* application; when the probe build fails the final build is never started
\* and no artifact is written.
C20_FinalBuildAfterProbe ==
  /\ [](finalBuildStarted =>
         /\ probeResult = "ok"
         /\ probeBuildStarted
         /\ loadIdx = Len(sourceFiles))
  /\ [](probeResult # "ok" => ~finalBuildStarted /\ ~output.written)
  /\ [][finalBuildStarted' /\ ~finalBuildStarted => optPc = "finalBuild"]_vars

C20_Witness ==
  /\ command = "optimize"
  /\ probeResult = "buildFails"
  /\ probeBuildStarted
  /\ optPc = "hung"
  /\ ~finalBuildStarted
  /\ ~output.written

\* ------------------------------------------------------------------------
\* More properties of the loader (checked under Spec).

\* C22: every handle the loader delivers comes from a build whose bundle was
\* executed, whose module has a default export and whose default export has
\* a callable request; a build whose default export is missing or has no
\* callable request is never delivered, with and without watch.
C22_DeliveredAreValidApps ==
  /\ [][\A b \in succeeded' \ succeeded :
          /\ b = buildNo
          /\ importModule(onEndResult).ranCode
          /\ ~importModule(onEndResult).threw
          /\ importModule(onEndResult).hasDefault
          /\ importModule(onEndResult).hasRequest]_vars
  /\ [][\A i \in DOMAIN promiseState' :
          (i \in DOMAIN promiseState /\ promiseState'[i] # promiseState[i]) =>
            promiseState'[i] \in succeeded']_vars
  /\ [](\A k \in DOMAIN delivered :
          delivered[k] \in succeeded /\ delivered[k] \notin failed)

C22_Witness ==
  /\ watch
  /\ delivered = <<2>>
  /\ failed = {1}
  /\ succeeded = {2}

\* ------------------------------------------------------------------------
\* Determinism of the optimize command (checked under UsageSpec).

\* The answer of the capability query: resolve(code === 0).
CapabilityFlag == exitCode = 0

\* The router as a function of the route paths and the capability flag.
ExpectedRouter(rs, flag) ==
  IF \E i \in DOMAIN rs : rs[i].path \in UnsupportedPaths THEN "TrieRouter"
  ELSE IF flag THEN "PreparedRegExpRouter"
  ELSE "RegExpRouter"

\* The response members no scanned module names, in catalogue order.
ExpectedContextMembers ==
  IF contextResponseApiRemoval
  THEN SelectSeq(CONTEXT_RESPONSE_METHODS, LAMBDA m : m \notin ScanMarked)
  ELSE <<>>

\* The lifecycle methods the exported application never read, in catalogue
\* order.
ExpectedHonoMembers ==
  SelectSeq(HONO_REMOVAL_METHODS, LAMBDA m : <<"app", m>> \notin probeRefs)

\* The removed listing as a function of the routes, the toggles, the scanned
\* modules and the probe references.
ExpectedListing ==
  (IF requestBodyApiRemoval
      /\ \A i \in DOMAIN routes : routes[i].method \in {"ALL", "GET", "HEAD", "OPTIONS"}
   THEN <<[category |-> "Request body APIs", members |-> <<>>]>> ELSE <<>>)
  \o (IF ExpectedContextMembers # <<>>
      THEN <<[category |-> "Context response APIs", members |-> ExpectedContextMembers]>>
      ELSE <<>>)
  \o (IF honoApiRemoval /\ ExpectedHonoMembers # <<>>
      THEN <<[category |-> "Hono APIs", members |-> ExpectedHonoMembers]>>
      ELSE <<>>)

\* C21: the chosen router is determined by the routes and the capability
\* flag alone, and the removed listing (categories and member names, in
\* order) by the routes, the toggles, the scanned modules and the probe
\* references alone, so two invocations with the same inputs agree on both.
C21_Deterministic ==
  /\ RouterChosen => routerName = ExpectedRouter(routes, CapabilityFlag)
  /\ RemovalDecided => removed = ExpectedListing

C21_Witness ==
  /\ optPc = "done"
  /\ routerName = "PreparedRegExpRouter"
  /\ probeRefs = {<<"app", "mount">>}
  /\ removed = <<[category |-> "Request body APIs", members |-> <<>>],
                 [category |-> "Context response APIs",
                  members |-> <<"body", "text", "html", "redirect">>],
                 [category |-> "Hono APIs", members |-> <<"route", "fire">>]>>

\* C27: when the probed application carries no unused-method record (it is
\* not an instance of the stand-in class), optimize does not fail on that
\* account: lifecycle removal is skipped and the artifact keeps the
\* lifecycle methods.
C27_NoRecordDegradesSafely ==
  ~instrumented =>
    /\ errorMessage # KeysError
    /\ ~removeHonoApi
    /\ output.hono = {}

\* C26: once the command has ended after printing the summary, a category is
\* named in the summary if and only if the final build cut a non-empty set
\* of that category's members out of the artifact; with a POST route the
\* request-body category is not named and request.js is left as it is.
C26_SummaryMatchesRemoval ==
  (optPc = "done" \/ (optPc = "failed" /\ finalBuildStarted)) =>
    /\ \A file \in FrameworkFiles :
         CategoryOf(file) \in SummaryCategories <=> RemovedFrom(file) # {}
    /\ (\E i \in DOMAIN routes : routes[i].method = "POST") =>
         /\ "Request body APIs" \notin SummaryCategories
         /\ output.request = {}

\* ------------------------------------------------------------------------
\* Properties of the final build's resolve and load hooks (checked under
\* ResolveSpec).

\* The file the import stands for.
RealTarget == DefaultResolve(rImport.path, ResolveDir)

\* C23: a resolve hook (framework entry, request, context, base class)
\* redirects an import to its synthetic path only when the import has an
\* importer; an import with no importer, the entry point included, is
\* resolved by esbuild itself and no hook issues a nested call for it.
C23_RedirectOnlyWithImporter ==
  /\ rRedirected => rImport.importer # ""
  /\ rImport.importer = "" =>
       /\ rDepth = 0
       /\ rPc \in {"load", "done"} => rPath = RealTarget

C23_Witness ==
  /\ rPc = "done"
  /\ rImport = [path |-> <<SrcDir, "/", "request", ".js">>, importer |-> ""]
  /\ removeRequestBodyApi
  /\ rHookCalls = 1
  /\ ~rRedirected
  /\ rPath = <<SrcDir, "/", "request", ".js">>

\* C24: at most one load filter matches a path, no load filter matches a
\* real file, and the original file a virtual module reads is matched by no
\* load filter.
C24_LoadFiltersDisjoint ==
  /\ Cardinality(rLoadMatches) <= 1
  /\ \A i \in DOMAIN Hooks :
       /\ ~LoadFilter(Hooks[i], RealTarget)
       /\ rPc = "done" => ~LoadFilter(Hooks[i], rContent)
  /\ (rPc = "done" /\ ~rRedirected) => rLoadMatches = {}

C24_Witness ==
  /\ rPc = "done"
  /\ rRedirected
  /\ rPath = <<HonoDist, "/", "hono-optimized-request-pseudo-import-path">>
  /\ rLoadMatches = {2}
  /\ rContent = <<HonoDist, "/", "request", ".js">>

\* C29: resolution through the hooks ends: the build.resolve call a hook
\* issues is not taken by any hook, so the calls never nest deeper than one,
\* at most two hook invocations happen for an import, and an import that is
\* not loaded yet can always take its next step.
C29_ResolutionTerminates ==
  /\ rMaxDepth <= 1
  /\ rDepth <= 1
  /\ rPc # "overflow"
  /\ rHookCalls <= 2
  /\ rPc \in {"resolve", "load"} => ENABLED ResolveNext

C29_Witness ==
  /\ rPc = "done"
  /\ rImport = [path |-> <<"hono">>, importer |-> SrcDir]
  /\ rRedirected
  /\ rMaxDepth = 1
  /\ rHookCalls = 2

\* C30: only framework modules are replaced: an import whose target lies
\* outside the framework's directory is never redirected and is built from
\* its own file, also when its path ends in request.js, context.js or
\* hono-base.js.
C30_OnlyFrameworkRedirected ==
  RealTarget[1] # HonoDist =>
    /\ ~rRedirected
    /\ rPc = "done" => rContent = RealTarget

\* ------------------------------------------------------------------------
\* Properties of the request command's loop (checked under RequestSpec).

\* The handles whose result was printed or saved, in order.
OutputApps == [i \in 1..Len(outputs) |-> outputs[i].app]

\* C28: with --watch, the request command issues the request and outputs the
\* result once for every handle the loader delivers, in delivery order, and
\* never ends its consumption of the sequence, whatever the response is.
C28_WatchKeepsConsuming ==
  watch =>
    /\ ~cancelled
    /\ requestExit = NoRequestExit
    /\ requested = IF BodyDone THEN delivered ELSE SubSeq(delivered, 1, Len(delivered) - 1)
    /\ OutputApps = requested

\* ------------------------------------------------------------------------
\* Properties of removeApis (checked under RemoveSpec).

\* The statement is a class with the given name, however it is written.
BindsClass(statement, className) ==
  /\ statement.type = "ClassDeclaration" \/ statement.init = "ClassExpression"
  /\ statement.name = className

\* The member's name as it is written in the class body.
MemberName(m) == IF m.keyType = "PrivateName" THEN PrivateKey(m.name) ELSE m.name

\* The member is a method, a property or a private field named in the list.
NamedMember(m, methods) ==
  /\ m.type \in {"ClassMethod", "ClassProperty", "ClassPrivateProperty"}
  /\ MemberName(m) \in Range(methods)

\* The member is a method or a property whose key is an identifier in the
\* list, or a private field whose #name is in the list.
IdentifierNamedMember(m, methods) ==
  \/ /\ m.type \in {"ClassMethod", "ClassProperty"}
     /\ m.keyType = "Identifier"
     /\ m.name \in Range(methods)
  \/ /\ m.type = "ClassPrivateProperty"
     /\ PrivateKey(m.name) \in Range(methods)

\* The statement is a variable declaration of the name, initialised with a
\* class expression.
VariableBoundClass(statement, className) ==
  /\ statement.type = "VariableDeclaration"
  /\ statement.idType = "Identifier"
  /\ statement.init = "ClassExpression"
  /\ statement.name = className

\* C25 as stated: removeApis removes from the class with the given name
\* exactly the methods, properties and private fields named in the list, and
\* changes nothing else.
C25_RemovesExactlyNamed ==
  rmPc = "returned" =>
    rmResult =
      [i \in DOMAIN rmContents |->
         IF BindsClass(rmContents[i], rmClassName)
           THEN [rmContents[i] EXCEPT
                   !.members = SelectSeq(@, LAMBDA m : ~NamedMember(m, rmMethods))]
           ELSE rmContents[i]]

\* C25, amended: removeApis removes from a class expression that a top-level
\* variable declaration binds to the given name exactly the methods and
\* properties whose key is an identifier in the list and the private fields
\* whose #name is in the list; every other member, every other statement and
\* a class of that name written any other way stay as they are.
C25_RemovesExactlyMatched ==
  rmPc = "returned" =>
    /\ DOMAIN rmResult = DOMAIN rmContents
    /\ \A i \in DOMAIN rmContents :
         /\ [rmResult[i] EXCEPT !.members = rmContents[i].members] = rmContents[i]
         /\ rmResult[i].members =
              IF VariableBoundClass(rmContents[i], rmClassName)
                THEN SelectSeq(rmContents[i].members,
                               LAMBDA m : ~IdentifierNamedMember(m, rmMethods))
                ELSE rmContents[i].members

\* A call that removed one member of the named class, kept another, and left
\* the same-named member of another class alone.
C25_Witness ==
  /\ rmPc = "returned"
  /\ \E i \in DOMAIN rmContents :
       /\ VariableBoundClass(rmContents[i], rmClassName)
       /\ Len(rmContents[i].members) = 2
       /\ Len(rmResult[i].members) = 1
  /\ \E i \in DOMAIN rmContents :
       /\ rmContents[i].name = "Context"
       /\ \E j \in DOMAIN rmResult[i].members :
            NamedMember(rmResult[i].members[j], rmMethods)

====
